---------------------------- MODULE Spec2Model ----------------------------
(***************************************************************************)
(* GameScriptInterface: the script binding of the Game object (method      *)
(* catalog, dispatch, argument marshalling) and its hot-reload coordinator *)
(* (a watcher thread appending changed paths to a mutex-guarded queue, the *)
(* engine thread draining that queue once per frame).                      *)
(*                                                                         *)
(* Four specifications share the variables:                                *)
(*   Spec         the hot-reload coordinator, engine thread and watcher    *)
(*                thread interleaved statement by statement;               *)
(*   SpecCall     CallMethod, GetProperty and SetProperty on the engine    *)
(*                thread, for every name and every argument list within    *)
(*                the bounds;                                              *)
(*   SpecLive     the coordinator with hot reload enabled for good and     *)
(*                fair threads, for the liveness of the hand-off;          *)
(*   SpecMarshal  ExtractInt, ExtractFloat and ExtractVec3 applied to      *)
(*                inputs within the bounds.                                *)
(*                                                                         *)
(* Numbers: a double or a float is held in tenths (39 is 3.9); an int,     *)
(* long or unsigned is held as the integer itself.  The messages of the    *)
(* source that are written in Chinese are given by an English gloss.       *)
(***************************************************************************)
EXTENDS Integers, Sequences, FiniteSets, TLC

(***************************************************************************)
(* Bounds of the model.                                                    *)
(***************************************************************************)
\* longest argument list handed to CallMethod (moveProp takes 4)
MaxArgs == 5
\* file-change callbacks the watcher thread fires in one behaviour
MaxChanges == 3
\* ProcessPendingHotReloadEvents calls in one behaviour
MaxDrains == 3
\* enable/disable/initialize/shutdown operations in one behaviour
MaxToggles == 3
\* the doubles handed to the marshaller go from -MaxTenths/10 to MaxTenths/10
MaxTenths == 45
\* the longest list handed to ExtractVec3
MaxVecLen == 4
\* the callbacks of SpecLive whose path has not been reloaded yet
MaxOutstanding == 2

(***************************************************************************)
(* Dynamic values (std::any) as a closed tagged variant.                   *)
(***************************************************************************)
Val(tag, num, str) == [tag |-> tag, num |-> num, str |-> str]
DoubleVal(tenths) == Val("double", tenths, "")
StringVal(s) == Val("string", 0, s)
BoolVal(b) == Val("bool", IF b THEN 1 ELSE 0, "")
\* std::any{} : the empty value
NoVal == Val("empty", 0, "")

\* the script paths of the model
ScriptA == "Data/Scripts/JSGame.js"
ScriptB == "Data/Scripts/InputSystem.js"

\* the values the argument lists of SpecCall are drawn from: V8 hands every
\* script number over as a double and every script string as std::string
ArgValues == {DoubleVal(15), StringVal(ScriptA)}

(***************************************************************************)
(* ScriptMethodResult, and an exception in flight.  kind is "Success",     *)
(* "Error" or "Exception"; std says whether an exception in flight derives *)
(* from std::exception (what catch (std::exception const&) catches).       *)
(***************************************************************************)
Msg(prefix, text, name, expected, actual) ==
    [prefix |-> prefix, text |-> text, name |-> name,
     expected |-> expected, actual |-> actual]
NoMsg == Msg("", "", "", -1, -1)

Success(v) == [kind |-> "Success", val |-> v, msg |-> NoMsg, std |-> TRUE]
Error(m) == [kind |-> "Error", val |-> NoVal, msg |-> m, std |-> TRUE]
Throw(m) == [kind |-> "Exception", val |-> NoVal, msg |-> m, std |-> TRUE]
\* ScriptMethodResult::Success() without a value
SuccessVoid == Success(NoVal)

\* throw std::invalid_argument("cannot convert to <type> type")
InvalidArgument(type) == Throw(Msg("", "cannot convert to type", type, -1, -1))

\* rounds to the nearest integer, halves away from zero
TruncToIntRounds(tenths) ==
    IF tenths >= 0 THEN (tenths + 5) \div 10 ELSE -((-tenths + 5) \div 10)

\* drops the fraction as a conversion to int does
NarrowToFloatTruncates(tenths) ==
    IF tenths >= 0 THEN (tenths \div 10) * 10 ELSE -((-tenths) \div 10) * 10

\* static_cast<int>(double): truncation toward zero
TruncToInt(tenths) ==
    IF tenths >= 0 THEN tenths \div 10 ELSE -((-tenths) \div 10)

\* static_cast<float>(double): the nearest float, which keeps the fraction;
\* on the model's grid of tenths the nearest float of a double is that tenth
NarrowToFloat(tenths) == tenths

(***************************************************************************)
(* The marshaller.  Each Extract yields a result whose val holds the       *)
(* converted number (tag "float": tenths; tag "int": the integer) or an    *)
(* exception in flight.                                                    *)
(***************************************************************************)
\* a double beyond the range of int (1e10), carried by name: its tenths are
\* beyond the integers of the model.  It is a float exactly.
HugeDouble == Val("double", 0, "1e10")

\* static_cast<int> of a double or float whose truncation no int holds is
\* undefined: the conversion yields whatever the build yields
Undefined == [kind |-> "Undefined", val |-> NoVal, msg |-> NoMsg, std |-> FALSE]

\* the truncation of the number fits in an int
FitsInt(arg) == arg.str = ""

ExtractFloat(arg) ==
    IF arg.tag = "double"
    THEN Success(Val("float", NarrowToFloat(arg.num), arg.str))
    ELSE IF arg.tag = "float" THEN Success(Val("float", arg.num, ""))
    ELSE IF arg.tag \in {"int", "long", "uint"}
         THEN Success(Val("float", arg.num * 10, ""))
    ELSE InvalidArgument("float")

ExtractInt(arg) ==
    IF arg.tag = "double"
    THEN IF FitsInt(arg) THEN Success(Val("int", TruncToInt(arg.num), ""))
         ELSE Undefined
    ELSE IF arg.tag = "int" THEN Success(Val("int", arg.num, ""))
    ELSE IF arg.tag = "float"
    THEN IF FitsInt(arg) THEN Success(Val("int", TruncToInt(arg.num), ""))
         ELSE Undefined
    ELSE IF arg.tag \in {"long", "uint"} THEN Success(Val("int", arg.num, ""))
    ELSE InvalidArgument("int")

\* throws a string literal, which is no std::exception
ExtractStringThrowsLiteral(arg) ==
    IF arg.tag \in {"string", "cstr", "pchar"} THEN Success(StringVal(arg.str))
    ELSE [InvalidArgument("string") EXCEPT !.std = FALSE]

ExtractString(arg) ==
    IF arg.tag \in {"string", "cstr", "pchar"} THEN Success(StringVal(arg.str))
    ELSE InvalidArgument("string")

\* Vec3 as a triple of floats (tenths)
Vec3(x, y, z) == <<x, y, z>>

\* reads the three values from the front of the list, whatever startIndex
ExtractVec3IgnoresStart(args, startIndex) ==
    IF startIndex + 2 >= Len(args)
    THEN [res |-> Throw(Msg("", "Vec3 needs parameters (x, y, z)", "Vec3", 3, -1)),
          vec |-> Vec3(0, 0, 0), tried |-> 0]
    ELSE LET x == ExtractFloat(args[1])
             y == ExtractFloat(args[2])
             z == ExtractFloat(args[3])
         IN  IF x.kind # "Success" \/ y.kind # "Success" \/ z.kind # "Success"
             THEN [res |-> InvalidArgument("float"), vec |-> Vec3(0, 0, 0),
                   tried |-> 3]
             ELSE [res |-> SuccessVoid,
                   vec |-> Vec3(x.val.num, y.val.num, z.val.num), tried |-> 3]

\* the bound check off by one: startIndex + 3 >= args.size()
ExtractVec3OffByOne(args, startIndex) ==
    [res |-> IF startIndex + 3 >= Len(args)
             THEN Throw(Msg("", "Vec3 needs parameters (x, y, z)", "Vec3", 3, -1))
             ELSE SuccessVoid,
     vec |-> Vec3(0, 0, 0), tried |-> 0]

\* ExtractVec3(args, startIndex): startIndex counts from 0 as in the source;
\* the sequences of the model count from 1.  tried is the number of
\* ExtractFloat calls made.
ExtractVec3(args, startIndex) ==
    IF startIndex + 2 >= Len(args)
    THEN [res |-> Throw(Msg("", "Vec3 needs parameters (x, y, z)", "Vec3", 3, -1)),
          vec |-> Vec3(0, 0, 0), tried |-> 0]
    ELSE LET x == ExtractFloat(args[startIndex + 1])
             y == ExtractFloat(args[startIndex + 2])
             z == ExtractFloat(args[startIndex + 3])
         IN  IF x.kind # "Success"
             THEN [res |-> x, vec |-> Vec3(0, 0, 0), tried |-> 1]
             ELSE IF y.kind # "Success"
             THEN [res |-> y, vec |-> Vec3(0, 0, 0), tried |-> 2]
             ELSE IF z.kind # "Success"
             THEN [res |-> z, vec |-> Vec3(0, 0, 0), tried |-> 3]
             ELSE [res |-> SuccessVoid,
                   vec |-> Vec3(x.val.num, y.val.num, z.val.num), tried |-> 3]

\* accepts more arguments than expected: args.size() < expectedCount
ValidateArgCountAtLeast(args, expectedCount, methodName) ==
    IF Len(args) < expectedCount
    THEN Error(Msg("", "needs variables, but receives", methodName,
                   expectedCount, Len(args)))
    ELSE SuccessVoid

\* ValidateArgCount: "<methodName> needs <expected> variables, but receives <n>"
ValidateArgCount(args, expectedCount, methodName) ==
    IF Len(args) # expectedCount
    THEN Error(Msg("", "needs variables, but receives", methodName,
                   expectedCount, Len(args)))
    ELSE SuccessVoid

(***************************************************************************)
(* The host collaborators.  Game (Game.cpp), FileWatcher and ScriptReloader*)
(* are outside the sources at hand; they are modelled by their declared    *)
(* interface and the specification's description of them.                  *)
(***************************************************************************)
\* Game: m_gameState, m_player (present or nullptr), m_props, created cubes
InitGame ==
    [gameState |-> "ATTRACT", player |-> FALSE,
     props |-> <<Vec3(0, 0, 0), Vec3(0, 0, 0)>>, cubes |-> {}]

Game_IsAttractMode(g) == g.gameState = "ATTRACT"

Game_CreateCube(g, position) == [g EXCEPT !.cubes = @ \cup {position}]

\* an index outside m_props moves nothing
Game_MoveProp(g, propIndex, newPosition) ==
    IF propIndex >= 0 /\ propIndex < Len(g.props)
    THEN [g EXCEPT !.props[propIndex + 1] = newPosition]
    ELSE g

\* FileWatcher::AddWatchedFile / RemoveWatchedFile on the ordered watch list
FW_AddWatchedFile(watched, path) ==
    IF \E i \in 1..Len(watched) : watched[i] = path
    THEN watched ELSE Append(watched, path)

FW_RemoveWatchedFile(watched, path) ==
    LET Keep(p) == p # path IN SelectSeq(watched, Keep)

\* ScriptReloader::ReloadScript(path): true iff the script at exactly that
\* path exists and loads
SR_ReloadScript(files, path) == path \in files

\* the hard-coded root of ExecuteGetFileTimestamp
TimestampRoot == "C:/p4/Personal/SD/ProtogameJS2D/"

\* the absolute path ExecuteGetFileTimestamp stats
TimestampPath(filePath) == TimestampRoot \o "Run/" \o filePath

(***************************************************************************)
(* The world a handler runs in: the host state it reaches through m_game,  *)
(* m_fileWatcher and m_scriptReloader, the collaborator operations invoked *)
(* so far in this call (ops) and the Extract calls made so far (conv).     *)
(***************************************************************************)
Op(name, str, num, vec) == [op |-> name, str |-> str, num |-> num, vec |-> vec]

Invoke(w, op) == [w EXCEPT !.ops = Append(@, op)]

Converted(w, n) == [w EXCEPT !.conv = @ + n]

\* a collaborator operation that fails by throwing std::exception
HostThrow == Throw(Msg("", "host failure", "", -1, -1))

\* catch (const std::exception& e) { return Error(prefix + e.what()); }
\* an exception that does not derive from std::exception passes through
Catch(prefix, res) ==
    IF res.kind = "Exception" /\ res.std
    THEN Error([res.msg EXCEPT !.prefix = prefix])
    ELSE res

Outcome(res, w) == [res |-> res, w |-> w]

\* the tail of a handler: the collaborator operation op is invoked; when it
\* throws (hf) the world is as before the operation, else it is w2
HostStep(prefix, w, op, hf, ok, w2) ==
    IF hf THEN Outcome(Catch(prefix, HostThrow), Invoke(w, op))
    ELSE Outcome(ok, Invoke(w2, op))

ExecuteCreateCube(args, w, hf) ==
    LET result == ValidateArgCount(args, 3, "createCube")
        position == ExtractVec3(args, 0)
        w1 == Converted(w, position.tried)
    IN  IF result.kind # "Success" THEN Outcome(result, w)
        ELSE IF position.res.kind # "Success"
        THEN Outcome(Catch("create cube failed: ", position.res), w1)
        ELSE HostStep("create cube failed: ", w1,
                      Op("CreateCube", "", 0, position.vec), hf,
                      Success(StringVal("cube created")),
                      [w1 EXCEPT !.game = Game_CreateCube(@, position.vec)])

\* moves the prop before the position is converted
ExecuteMovePropMovesFirst(args, w, hf) ==
    LET result == ValidateArgCount(args, 4, "moveProp")
        propIndex == ExtractInt(args[1])
        newPosition == ExtractVec3(args, 1)
        w1 == Converted(w, 1)
        w2 == [Invoke(w1, Op("MoveProp", "", propIndex.val.num, Vec3(0, 0, 0)))
                 EXCEPT !.game = Game_MoveProp(@, propIndex.val.num, Vec3(10, 10, 10))]
    IN  IF result.kind # "Success" THEN Outcome(result, w)
        ELSE IF propIndex.kind # "Success"
        THEN Outcome(Catch("move prop failed: ", propIndex), w1)
        ELSE IF newPosition.res.kind # "Success"
        THEN Outcome(Catch("move prop failed: ", newPosition.res), w2)
        ELSE Outcome(Success(StringVal("prop moved")), w2)

ExecuteMoveProp(args, w, hf) ==
    LET result == ValidateArgCount(args, 4, "moveProp")
        propIndex == ExtractInt(args[1])
        newPosition == ExtractVec3(args, 1)
        w1 == Converted(w, 1)
        w2 == Converted(w1, newPosition.tried)
    IN  IF result.kind # "Success" THEN Outcome(result, w)
        ELSE IF propIndex.kind # "Success"
        THEN Outcome(Catch("move prop failed: ", propIndex), w1)
        ELSE IF newPosition.res.kind # "Success"
        THEN Outcome(Catch("move prop failed: ", newPosition.res), w2)
        ELSE HostStep("move prop failed: ", w2,
                      Op("MoveProp", "", propIndex.val.num, newPosition.vec), hf,
                      Success(StringVal("prop moved")),
                      [w2 EXCEPT !.game =
                           Game_MoveProp(@, propIndex.val.num, newPosition.vec)])

ExecuteGetPlayerPosition(args, w, hf) ==
    LET result == ValidateArgCount(args, 0, "getPlayerPosition")
    IN  IF result.kind # "Success" THEN Outcome(result, w)
        ELSE HostStep("get player position failed: ", w,
                      Op("GetPlayer", "", 0, Vec3(0, 0, 0)), hf,
                      IF ~w.game.player
                      THEN Error(Msg("", "player object does not exist", "", -1, -1))
                      ELSE Success(StringVal("{ x, y, z }")),
                      w)

ExecuteMovePlayerCamera(args, w, hf) ==
    LET result == ValidateArgCount(args, 3, "movePlayerCamera")
        offset == ExtractVec3(args, 0)
        w1 == Converted(w, offset.tried)
    IN  IF result.kind # "Success" THEN Outcome(result, w)
        ELSE IF offset.res.kind # "Success"
        THEN Outcome(Catch("move player camera failed: ", offset.res), w1)
        ELSE HostStep("move player camera failed: ", w1,
                      Op("MovePlayerCamera", "", 0, offset.vec), hf,
                      Success(StringVal("camera moved")), w1)

ExecuteRender(args, w, hf) ==
    LET result == ValidateArgCount(args, 0, "Render")
    IN  IF result.kind # "Success" THEN Outcome(result, w)
        ELSE HostStep("Render failed: ", w, Op("Render", "", 0, Vec3(0, 0, 0)), hf,
                      Success(StringVal("Render Success")), w)

ExecuteUpdate(args, w, hf) ==
    LET result == ValidateArgCount(args, 2, "Update")
        gameDeltaSeconds == ExtractFloat(args[1])
        systemDeltaSeconds == ExtractFloat(args[2])
    IN  IF result.kind # "Success" THEN Outcome(result, w)
        ELSE IF gameDeltaSeconds.kind # "Success"
        THEN Outcome(Catch("Update failed: ", gameDeltaSeconds), Converted(w, 1))
        ELSE IF systemDeltaSeconds.kind # "Success"
        THEN Outcome(Catch("Update failed: ", systemDeltaSeconds), Converted(w, 2))
        ELSE HostStep("Update failed: ", Converted(w, 2),
                      Op("Update", "", 0,
                         Vec3(gameDeltaSeconds.val.num, systemDeltaSeconds.val.num, 0)),
                      hf, Success(StringVal("Update Success")), Converted(w, 2))

\* the handlers whose one argument is a string handed to a collaborator
\* operation that leaves the modelled state alone: executeCommand, executeFile
ExecuteStringOp(args, w, hf, methodName, prefix, opName, okText) ==
    LET result == ValidateArgCount(args, 1, methodName)
        s == ExtractString(args[1])
        w1 == Converted(w, 1)
    IN  IF result.kind # "Success" THEN Outcome(result, w)
        ELSE IF s.kind # "Success" THEN Outcome(Catch(prefix, s), w1)
        ELSE HostStep(prefix, w1, Op(opName, s.val.str, 0, Vec3(0, 0, 0)), hf,
                      Success(StringVal(okText \o s.val.str)), w1)

ExecuteJavaScriptCommand(args, w, hf) ==
    ExecuteStringOp(args, w, hf, "executeCommand", "execute command failed: ",
                    "ExecuteJavaScriptCommand", "command executed: ")

ExecuteJavaScriptFile(args, w, hf) ==
    ExecuteStringOp(args, w, hf, "executeFile", "execute file failed: ",
                    "ExecuteJavaScriptFile", "file executed: ")

ExecuteIsAttractMode(args, w, hf) ==
    LET result == ValidateArgCount(args, 0, "isAttractMode")
    IN  IF result.kind # "Success" THEN Outcome(result, w)
        ELSE HostStep("check attract mode failed: ", w,
                      Op("IsAttractMode", "", 0, Vec3(0, 0, 0)), hf,
                      Success(BoolVal(Game_IsAttractMode(w.game))), w)

ExecuteGetGameState(args, w, hf) ==
    LET result == ValidateArgCount(args, 0, "getGameState")
    IN  IF result.kind # "Success" THEN Outcome(result, w)
        ELSE HostStep("get game state failed: ", w,
                      Op("IsAttractMode", "", 0, Vec3(0, 0, 0)), hf,
                      Success(StringVal(IF Game_IsAttractMode(w.game)
                                        THEN "attract" ELSE "game")), w)

ExecuteGetFileTimestamp(args, w, hf) ==
    LET result == ValidateArgCount(args, 1, "getFileTimestamp")
        filePath == ExtractString(args[1])
        w1 == Converted(w, 1)
        fullPath == TimestampPath(filePath.val.str)
    IN  IF result.kind # "Success" THEN Outcome(result, w)
        ELSE IF filePath.kind # "Success"
        THEN Outcome(Catch("get file timestamp failed: ", filePath), w1)
        ELSE HostStep("get file timestamp failed: ", w1,
                      Op("filesystem::exists", fullPath, 0, Vec3(0, 0, 0)), hf,
                      IF fullPath \in w.files
                      THEN Success(Val("double", 0, "timestamp"))
                      ELSE Error(Msg("", "file does not exist: ",
                                     filePath.val.str, -1, -1)),
                      w1)

(***************************************************************************)
(* The hot-reload bindings.  m_fileWatcher and m_scriptReloader are made   *)
(* in the constructor and never reset, so the null checks never fire.      *)
(***************************************************************************)
\* starts the watcher again although hot reload is already enabled
ExecuteEnableHotReloadRestarts(args, w, hf) ==
    LET result == ValidateArgCount(args, 0, "enableHotReload")
    IN  IF result.kind # "Success" THEN Outcome(result, w)
        ELSE HostStep("enable hot reload failed: ", w,
                      Op("StartWatching", "", 0, Vec3(0, 0, 0)), hf,
                      Success(BoolVal(TRUE)),
                      [w EXCEPT !.watching = TRUE, !.hre = TRUE])

ExecuteEnableHotReload(args, w, hf) ==
    LET result == ValidateArgCount(args, 0, "enableHotReload")
    IN  IF result.kind # "Success" THEN Outcome(result, w)
        ELSE IF ~w.hre
        THEN HostStep("enable hot reload failed: ", w,
                      Op("StartWatching", "", 0, Vec3(0, 0, 0)), hf,
                      Success(BoolVal(TRUE)),
                      [w EXCEPT !.watching = TRUE, !.hre = TRUE])
        ELSE Outcome(Success(BoolVal(TRUE)), w)

ExecuteDisableHotReload(args, w, hf) ==
    LET result == ValidateArgCount(args, 0, "disableHotReload")
    IN  IF result.kind # "Success" THEN Outcome(result, w)
        ELSE IF w.hre
        THEN HostStep("disable hot reload failed: ", w,
                      Op("StopWatching", "", 0, Vec3(0, 0, 0)), hf,
                      Success(BoolVal(TRUE)),
                      [w EXCEPT !.watching = FALSE, !.hre = FALSE])
        ELSE Outcome(Success(BoolVal(TRUE)), w)

\* no try block of its own, and nothing in it throws
ExecuteIsHotReloadEnabled(args, w, hf) ==
    LET result == ValidateArgCount(args, 0, "isHotReloadEnabled")
    IN  IF result.kind # "Success" THEN Outcome(result, w)
        ELSE Outcome(Success(BoolVal(w.hre)), w)

ExecuteAddWatchedFile(args, w, hf) ==
    LET result == ValidateArgCount(args, 1, "addWatchedFile")
        filePath == ExtractString(args[1])
        w1 == Converted(w, 1)
    IN  IF result.kind # "Success" THEN Outcome(result, w)
        ELSE IF filePath.kind # "Success"
        THEN Outcome(Catch("add watched file failed: ", filePath), w1)
        ELSE HostStep("add watched file failed: ", w1,
                      Op("AddWatchedFile", filePath.val.str, 0, Vec3(0, 0, 0)), hf,
                      Success(BoolVal(TRUE)),
                      [w1 EXCEPT !.watched = FW_AddWatchedFile(@, filePath.val.str)])

ExecuteRemoveWatchedFile(args, w, hf) ==
    LET result == ValidateArgCount(args, 1, "removeWatchedFile")
        filePath == ExtractString(args[1])
        w1 == Converted(w, 1)
    IN  IF result.kind # "Success" THEN Outcome(result, w)
        ELSE IF filePath.kind # "Success"
        THEN Outcome(Catch("remove watched file failed: ", filePath), w1)
        ELSE HostStep("remove watched file failed: ", w1,
                      Op("RemoveWatchedFile", filePath.val.str, 0, Vec3(0, 0, 0)), hf,
                      Success(BoolVal(TRUE)),
                      [w1 EXCEPT !.watched = FW_RemoveWatchedFile(@, filePath.val.str)])

\* the comma-separated list ExecuteGetWatchedFiles builds
RECURSIVE JoinComma(_)
JoinComma(files) ==
    IF Len(files) = 0 THEN ""
    ELSE IF Len(files) = 1 THEN files[1]
    ELSE JoinComma(SubSeq(files, 1, Len(files) - 1)) \o ", " \o files[Len(files)]

ExecuteGetWatchedFiles(args, w, hf) ==
    LET result == ValidateArgCount(args, 0, "getWatchedFiles")
    IN  IF result.kind # "Success" THEN Outcome(result, w)
        ELSE HostStep("get watched files failed: ", w,
                      Op("GetWatchedFiles", "", 0, Vec3(0, 0, 0)), hf,
                      Success(StringVal(JoinComma(w.watched))), w)

\* reports a reload that failed as an Error of the call
ExecuteReloadScriptFailsCall(args, w, hf) ==
    LET result == ValidateArgCount(args, 1, "reloadScript")
        scriptPath == ExtractString(args[1])
        w1 == Converted(w, 1)
    IN  IF result.kind # "Success" THEN Outcome(result, w)
        ELSE IF scriptPath.kind # "Success"
        THEN Outcome(Catch("reload script failed: ", scriptPath), w1)
        ELSE HostStep("reload script failed: ", w1,
                      Op("ReloadScript", scriptPath.val.str, 0, Vec3(0, 0, 0)), hf,
                      IF SR_ReloadScript(w.files, scriptPath.val.str)
                      THEN Success(BoolVal(TRUE))
                      ELSE Error(Msg("reload script failed: ", "", "", -1, -1)),
                      w1)

\* the path of the script is handed to the Reloader as the script gave it
ExecuteReloadScript(args, w, hf) ==
    LET result == ValidateArgCount(args, 1, "reloadScript")
        scriptPath == ExtractString(args[1])
        w1 == Converted(w, 1)
    IN  IF result.kind # "Success" THEN Outcome(result, w)
        ELSE IF scriptPath.kind # "Success"
        THEN Outcome(Catch("reload script failed: ", scriptPath), w1)
        ELSE HostStep("reload script failed: ", w1,
                      Op("ReloadScript", scriptPath.val.str, 0, Vec3(0, 0, 0)), hf,
                      Success(BoolVal(SR_ReloadScript(w.files, scriptPath.val.str))),
                      w1)

(***************************************************************************)
(* The catalog and the dispatcher.                                         *)
(***************************************************************************)
ScriptMethodInfo(name, parameterTypes, returnType) ==
    [name |-> name, parameterTypes |-> parameterTypes, returnType |-> returnType]

GetAvailableMethods ==
    << ScriptMethodInfo("createCube", <<"float", "float", "float">>, "string"),
       ScriptMethodInfo("moveProp", <<"int", "float", "float", "float">>, "string"),
       ScriptMethodInfo("getPlayerPosition", <<>>, "object"),
       ScriptMethodInfo("movePlayerCamera", <<"float", "float", "float">>, "string"),
       ScriptMethodInfo("update", <<"float", "float">>, "void"),
       ScriptMethodInfo("render", <<>>, "void"),
       ScriptMethodInfo("executeCommand", <<"string">>, "string"),
       ScriptMethodInfo("executeFile", <<"string">>, "string"),
       ScriptMethodInfo("isAttractMode", <<>>, "bool"),
       ScriptMethodInfo("getGameState", <<>>, "string"),
       ScriptMethodInfo("getFileTimestamp", <<"string">>, "number") >>

GetAvailableProperties == <<"attractMode", "gameState">>

\* the names the if-chain of CallMethod compares methodName with
DispatchTable ==
    {"createCube", "moveProp", "getPlayerPosition", "movePlayerCamera", "update",
     "render", "executeCommand", "executeFile", "isAttractMode", "getGameState",
     "getFileTimestamp", "enableHotReload", "disableHotReload",
     "isHotReloadEnabled", "addWatchedFile", "removeWatchedFile",
     "getWatchedFiles", "reloadScript"}

\* what each handler takes, read off its ValidateArgCount and Extract calls
HandlerSignature(methodName) ==
    IF methodName \in {"createCube", "movePlayerCamera"}
    THEN <<"float", "float", "float">>
    ELSE IF methodName = "moveProp" THEN <<"int", "float", "float", "float">>
    ELSE IF methodName = "update" THEN <<"float", "float">>
    ELSE IF methodName \in {"executeCommand", "executeFile", "getFileTimestamp",
                            "addWatchedFile", "removeWatchedFile", "reloadScript"}
    THEN <<"string">>
    ELSE <<>>

\* a handler that lets the unknown name fall into the last branch
DispatchFallsThrough(methodName, args, w, hf) ==
    IF methodName = "createCube" THEN ExecuteCreateCube(args, w, hf)
    ELSE IF methodName = "moveProp" THEN ExecuteMoveProp(args, w, hf)
    ELSE IF methodName = "getPlayerPosition" THEN ExecuteGetPlayerPosition(args, w, hf)
    ELSE IF methodName = "movePlayerCamera" THEN ExecuteMovePlayerCamera(args, w, hf)
    ELSE IF methodName = "update" THEN ExecuteUpdate(args, w, hf)
    ELSE IF methodName = "render" THEN ExecuteRender(args, w, hf)
    ELSE IF methodName = "executeCommand" THEN ExecuteJavaScriptCommand(args, w, hf)
    ELSE IF methodName = "executeFile" THEN ExecuteJavaScriptFile(args, w, hf)
    ELSE IF methodName = "isAttractMode" THEN ExecuteIsAttractMode(args, w, hf)
    ELSE IF methodName = "getGameState" THEN ExecuteGetGameState(args, w, hf)
    ELSE IF methodName = "getFileTimestamp" THEN ExecuteGetFileTimestamp(args, w, hf)
    ELSE IF methodName = "enableHotReload" THEN ExecuteEnableHotReload(args, w, hf)
    ELSE IF methodName = "disableHotReload" THEN ExecuteDisableHotReload(args, w, hf)
    ELSE IF methodName = "isHotReloadEnabled" THEN ExecuteIsHotReloadEnabled(args, w, hf)
    ELSE IF methodName = "addWatchedFile" THEN ExecuteAddWatchedFile(args, w, hf)
    ELSE IF methodName = "removeWatchedFile" THEN ExecuteRemoveWatchedFile(args, w, hf)
    ELSE IF methodName = "getWatchedFiles" THEN ExecuteGetWatchedFiles(args, w, hf)
    ELSE ExecuteReloadScript(args, w, hf)

\* the if-chain of CallMethod; the result is an exception in flight when
\* one escapes the handler
Dispatch(methodName, args, w, hf) ==
    IF methodName = "createCube" THEN ExecuteCreateCube(args, w, hf)
    ELSE IF methodName = "moveProp" THEN ExecuteMoveProp(args, w, hf)
    ELSE IF methodName = "getPlayerPosition" THEN ExecuteGetPlayerPosition(args, w, hf)
    ELSE IF methodName = "movePlayerCamera" THEN ExecuteMovePlayerCamera(args, w, hf)
    ELSE IF methodName = "update" THEN ExecuteUpdate(args, w, hf)
    ELSE IF methodName = "render" THEN ExecuteRender(args, w, hf)
    ELSE IF methodName = "executeCommand" THEN ExecuteJavaScriptCommand(args, w, hf)
    ELSE IF methodName = "executeFile" THEN ExecuteJavaScriptFile(args, w, hf)
    ELSE IF methodName = "isAttractMode" THEN ExecuteIsAttractMode(args, w, hf)
    ELSE IF methodName = "getGameState" THEN ExecuteGetGameState(args, w, hf)
    ELSE IF methodName = "getFileTimestamp" THEN ExecuteGetFileTimestamp(args, w, hf)
    ELSE IF methodName = "enableHotReload" THEN ExecuteEnableHotReload(args, w, hf)
    ELSE IF methodName = "disableHotReload" THEN ExecuteDisableHotReload(args, w, hf)
    ELSE IF methodName = "isHotReloadEnabled" THEN ExecuteIsHotReloadEnabled(args, w, hf)
    ELSE IF methodName = "addWatchedFile" THEN ExecuteAddWatchedFile(args, w, hf)
    ELSE IF methodName = "removeWatchedFile" THEN ExecuteRemoveWatchedFile(args, w, hf)
    ELSE IF methodName = "getWatchedFiles" THEN ExecuteGetWatchedFiles(args, w, hf)
    ELSE IF methodName = "reloadScript" THEN ExecuteReloadScript(args, w, hf)
    ELSE Outcome(Error(Msg("", "unknown method: ", methodName, -1, -1)), w)

\* CallMethod: the dispatch inside try, and
\* catch (std::exception const& e) { return Error("exception while executing: " + e.what()); }
CallMethod(methodName, args, w, hf) ==
    LET r == Dispatch(methodName, args, w, hf)
    IN  Outcome(Catch("exception while executing the method: ", r.res), r.w)

(***************************************************************************)
(* The properties of the script object.  A property value is a std::any;   *)
(* the conditional of the gameState branch has type const char*.           *)
(***************************************************************************)
\* falls into the gameState branch for every name but attractMode
GetPropertyDefaultsToState(propertyName, w) ==
    IF propertyName = "attractMode" THEN BoolVal(Game_IsAttractMode(w.game))
    ELSE Val("cstr", 0, IF Game_IsAttractMode(w.game) THEN "attract" ELSE "game")

GetProperty(propertyName, w) ==
    IF propertyName = "attractMode" THEN BoolVal(Game_IsAttractMode(w.game))
    ELSE IF propertyName = "gameState"
    THEN Val("cstr", 0, IF Game_IsAttractMode(w.game) THEN "attract" ELSE "game")
    ELSE NoVal

\* lets the script write the game state
SetPropertyWritesGameState(propertyName, value, w) ==
    IF propertyName = "gameState" /\ value.tag = "string"
    THEN [res |-> TRUE, w |-> [w EXCEPT !.game.gameState = "GAME"]]
    ELSE [res |-> FALSE, w |-> w]

\* SetProperty: no property can be set
SetProperty(propertyName, value, w) == [res |-> FALSE, w |-> w]

(***************************************************************************)
(* Paths.  std::filesystem::path::operator/ puts the preferred separator   *)
(* between its operands unless the left one is empty or ends with one.     *)
(***************************************************************************)
\* the project root App hands to InitializeHotReload
ProjectRoot == "C:/p4/Personal/SD/ProtogameJS2D"

\* the project roots a host may configure: the checkout of the author, or
\* an installation elsewhere
ProjectRoots == {ProjectRoot, "D:/Games/ProtogameJS2D"}

\* the roots of the model that end with a directory separator
EndsWithSeparator(p) == p \in {TimestampRoot}

\* the build targets Windows (the hard-coded C: root)
PreferredSeparator == "\\"

PathAppend(p, q) ==
    IF p = "" \/ EndsWithSeparator(p) THEN p \o q
    ELSE p \o PreferredSeparator \o q

\* GetAbsoluteScriptPath: path(m_projectRoot) / "Run" / relativePath
GetAbsoluteScriptPath(projectRoot, relativePath) ==
    PathAppend(PathAppend(projectRoot, "Run"), relativePath)

\* the files on disk when the program starts: the script ScriptA, under
\* both spellings of its absolute path; ScriptB is absent
InitFiles ==
    {TimestampPath(ScriptA), GetAbsoluteScriptPath(ProjectRoot, ScriptA)}

\* the watch list InitializeHotReload sets up
DefaultWatchedFiles ==
    <<"Data/Scripts/JSEngine.js", "Data/Scripts/JSGame.js",
      "Data/Scripts/InputSystem.js">>

\* the files edited while the program runs
ChangingFiles == {ScriptA, ScriptB}

(***************************************************************************)
(* State.                                                                  *)
(***************************************************************************)
VARIABLES
    \* the Game behind m_game, and the files on disk
    m_game, fileSystem,
    \* GameScriptInterface
    m_hotReloadEnabled, m_pendingFileChanges, m_projectRoot,
    \* m_fileChangeQueueMutex: "none", "engine" or "watcher"
    mutexOwner,
    \* FileWatcher: its thread runs, its watch list, its change callback is set
    fwWatching, fwWatched, fwCallbackSet,
    \* ScriptReloader: initialised
    srInitialized,
    \* the engine thread: where it is, the local queue of
    \* ProcessPendingHotReloadEvents, whether InitializeHotReload was called
    enginePc, filesToProcess, initCalled,
    \* the watcher thread: where it is, the path of the callback in progress
    watcherPc, watcherPath,
    \* the CallMethod call that returned last: its name and arguments, its
    \* result, the collaborator operations it invoked, the Extract calls it
    \* made, and the world before it
    lastCall, lastResult, lastOps, lastConv, before,
    \* history: every ReloadScript invocation, every path pushed, every path
    \* swapped out, and for the drain in progress or last returned: the
    \* paths it swapped out, its ReloadScript invocations, whether the flag
    \* was set at each of its checks, the paths pushed since its swap
    reloadLog, enqLog, takenLog,
    drainSnapshot, drainReloads, drainEnabled, pushedSinceSwap,
    \* how often the bounded operations ran
    nChanges, nDrains, nToggles

hostVars == <<m_game, fileSystem>>
hrVars == <<m_hotReloadEnabled, m_pendingFileChanges, m_projectRoot, mutexOwner,
            fwWatching, fwWatched, fwCallbackSet, srInitialized, initCalled>>
threadVars == <<filesToProcess, watcherPc, watcherPath>>
callVars == <<lastCall, lastResult, lastOps, lastConv, before>>
histVars == <<reloadLog, enqLog, takenLog, drainSnapshot, drainReloads,
              drainEnabled, pushedSinceSwap, nChanges, nDrains, nToggles>>
vars == <<hostVars, hrVars, enginePc, threadVars, callVars, histVars>>

\* the world a handler sees, and the one of the initial state
World ==
    [game |-> m_game, files |-> fileSystem, hre |-> m_hotReloadEnabled,
     watching |-> fwWatching, watched |-> fwWatched, ops |-> <<>>, conv |-> 0]

NoCall == [name |-> "", args |-> <<>>, hostFails |-> FALSE]

\* the state after construction: hot reload disabled, nothing queued
Init ==
    /\ m_game = InitGame
    /\ fileSystem = InitFiles
    /\ m_hotReloadEnabled = FALSE
    /\ m_pendingFileChanges = <<>>
    /\ m_projectRoot = ""
    /\ mutexOwner = "none"
    /\ fwWatching = FALSE
    /\ fwWatched = <<>>
    /\ fwCallbackSet = FALSE
    /\ srInitialized = FALSE
    /\ enginePc = "idle"
    /\ filesToProcess = <<>>
    /\ initCalled = FALSE
    /\ watcherPc = "idle"
    /\ watcherPath = ""
    /\ lastCall = NoCall
    /\ lastResult = SuccessVoid
    /\ lastOps = <<>>
    /\ lastConv = 0
    /\ before = [game |-> InitGame, files |-> InitFiles, hre |-> FALSE,
                 watching |-> FALSE, watched |-> <<>>, ops |-> <<>>, conv |-> 0]
    /\ reloadLog = <<>>
    /\ enqLog = <<>>
    /\ takenLog = <<>>
    /\ drainSnapshot = <<>>
    /\ drainReloads = <<>>
    /\ drainEnabled = TRUE
    /\ pushedSinceSwap = <<>>
    /\ nChanges = 0
    /\ nDrains = 0
    /\ nToggles = 0

(***************************************************************************)
(* SpecCall: CallMethod on the engine thread.                              *)
(***************************************************************************)
\* the names a script may try: every name of the if-chain, a name that is
\* none of them, and one that differs from one of them by case only
MethodNames == DispatchTable \cup {"noSuchMethod", "CreateCube"}

\* the argument lists: every list of ArgValues of length 0..MaxArgs
ArgLists == UNION {[1..n -> ArgValues] : n \in 0..MaxArgs}

\* a call whose collaborator operation throws is a call that reaches one
ReachesHost(methodName, args) ==
    Len(CallMethod(methodName, args, World, FALSE).w.ops) > 0

\* call(methodName, args) by the idle engine thread: the whole of CallMethod,
\* then the result is the caller's
Call(methodName, args, hostFails) ==
    /\ hostFails => ReachesHost(methodName, args)
    /\ LET r == CallMethod(methodName, args, World, hostFails)
       IN  /\ lastCall' = [name |-> methodName, args |-> args,
                           hostFails |-> hostFails]
           /\ lastResult' = r.res
           /\ lastOps' = r.w.ops
           /\ lastConv' = r.w.conv
           /\ before' = World
           /\ m_game' = r.w.game
           /\ fileSystem' = r.w.files
           /\ m_hotReloadEnabled' = r.w.hre
           /\ fwWatching' = r.w.watching
           /\ fwWatched' = r.w.watched
    /\ enginePc' = "returned"
    /\ UNCHANGED <<m_pendingFileChanges, m_projectRoot, mutexOwner, fwCallbackSet,
                   srInitialized, initCalled, threadVars, histVars>>

\* the script goes on after the call
Return ==
    /\ enginePc = "returned"
    /\ enginePc' = "idle"
    /\ lastCall' = NoCall
    /\ lastResult' = SuccessVoid
    /\ lastOps' = <<>>
    /\ lastConv' = 0
    /\ before' = World
    /\ UNCHANGED <<hostVars, hrVars, threadVars, histVars>>

\* the host between two calls: the player is spawned, the game leaves or
\* enters attract mode, a script file is written or deleted
HostSpawnPlayer ==
    /\ enginePc = "idle"
    /\ ~m_game.player
    /\ m_game' = [m_game EXCEPT !.player = TRUE]
    /\ before' = [before EXCEPT !.game = m_game']
    /\ UNCHANGED <<fileSystem, hrVars, enginePc, threadVars, histVars,
                   lastCall, lastResult, lastOps, lastConv>>

HostChangeGameState ==
    /\ enginePc = "idle"
    /\ m_game' = [m_game EXCEPT
                    !.gameState = IF @ = "ATTRACT" THEN "GAME" ELSE "ATTRACT"]
    /\ before' = [before EXCEPT !.game = m_game']
    /\ UNCHANGED <<fileSystem, hrVars, enginePc, threadVars, histVars,
                   lastCall, lastResult, lastOps, lastConv>>

FileWrittenOrDeleted ==
    /\ enginePc = "idle"
    /\ fileSystem' = IF TimestampPath(ScriptA) \in fileSystem
                     THEN fileSystem \ {TimestampPath(ScriptA)}
                     ELSE fileSystem \cup {TimestampPath(ScriptA)}
    /\ before' = [before EXCEPT !.files = fileSystem']
    /\ UNCHANGED <<m_game, hrVars, enginePc, threadVars, histVars,
                   lastCall, lastResult, lastOps, lastConv>>

\* the property names a script may try, and the values it may assign
PropertyNames == {"attractMode", "gameState", "noSuchProperty", "GameState"}

PropertyValues == ArgValues \cup {BoolVal(TRUE), BoolVal(FALSE), StringVal("game")}

\* GetProperty(propertyName) by the idle engine thread
GetPropertyCall(propertyName) ==
    /\ enginePc = "idle"
    /\ lastCall' = [name |-> propertyName, args |-> <<>>, hostFails |-> FALSE]
    /\ lastResult' = GetProperty(propertyName, World)
    /\ before' = World
    /\ enginePc' = "got_property"
    /\ UNCHANGED <<hostVars, hrVars, threadVars, histVars, lastOps, lastConv>>

\* SetProperty(propertyName, value) by the idle engine thread
SetPropertyCall(propertyName, value) ==
    /\ enginePc = "idle"
    /\ LET r == SetProperty(propertyName, value, World)
       IN  /\ lastCall' = [name |-> propertyName, args |-> <<value>>,
                           hostFails |-> FALSE]
           /\ lastResult' = BoolVal(r.res)
           /\ m_game' = r.w.game
           /\ fileSystem' = r.w.files
           /\ m_hotReloadEnabled' = r.w.hre
           /\ fwWatching' = r.w.watching
           /\ fwWatched' = r.w.watched
    /\ before' = World
    /\ enginePc' = "set_property"
    /\ UNCHANGED <<m_pendingFileChanges, m_projectRoot, mutexOwner, fwCallbackSet,
                   srInitialized, initCalled, threadVars, histVars, lastOps,
                   lastConv>>

\* the script goes on after reading or writing a property
PropertyReturn ==
    /\ enginePc \in {"got_property", "set_property"}
    /\ enginePc' = "idle"
    /\ lastCall' = NoCall
    /\ lastResult' = SuccessVoid
    /\ before' = World
    /\ UNCHANGED <<hostVars, hrVars, threadVars, histVars, lastOps, lastConv>>

CallAny ==
    /\ enginePc = "idle"
    /\ \E methodName \in MethodNames, args \in ArgLists, hostFails \in BOOLEAN :
          Call(methodName, args, hostFails)

NextCall ==
    \/ CallAny
    \/ Return
    \/ HostSpawnPlayer
    \/ HostChangeGameState
    \/ FileWrittenOrDeleted
    \/ \E propertyName \in PropertyNames : GetPropertyCall(propertyName)
    \/ \E propertyName \in PropertyNames, value \in PropertyValues :
          SetPropertyCall(propertyName, value)
    \/ PropertyReturn

SpecCall == Init /\ [][NextCall]_vars

(***************************************************************************)
(* Spec: the hot-reload coordinator.  The engine thread runs               *)
(* InitializeHotReload, ShutdownHotReload, the enable and disable bindings *)
(* and ProcessPendingHotReloadEvents, one at a time, statement by          *)
(* statement; the watcher thread of FileWatcher fires OnFileChanged.       *)
(***************************************************************************)
callFrame == <<lastCall, lastResult, lastOps, lastConv, before>>

\* ScriptReloader::ReloadScript(absolutePath) called by thread for drain
\* number drain: the invocation is logged with its outcome
ReloadScript(thread, absolutePath, drain) ==
    Append(reloadLog, [thread |-> thread, path |-> absolutePath, drain |-> drain,
                       ok |-> SR_ReloadScript(fileSystem, absolutePath)])

\* InitializeHotReload up to StartWatching.  FileWatcher::Initialize or
\* ScriptReloader::Initialize may fail (fwOk, srOk): return false.
InitializeHotReload(projectRoot, fwOk, srOk) ==
    /\ enginePc = "idle"
    /\ ~initCalled
    /\ nToggles < MaxToggles
    /\ nToggles' = nToggles + 1
    /\ initCalled' = TRUE
    /\ m_projectRoot' = projectRoot
    /\ IF ~fwOk
       THEN /\ enginePc' = "idle"
            /\ UNCHANGED <<srInitialized, fwCallbackSet, fwWatched, fwWatching>>
       ELSE IF ~srOk
       THEN /\ enginePc' = "idle"
            /\ UNCHANGED <<srInitialized, fwCallbackSet, fwWatched, fwWatching>>
       ELSE /\ srInitialized' = TRUE
            /\ fwCallbackSet' = TRUE
            /\ fwWatched' = DefaultWatchedFiles
            /\ fwWatching' = TRUE
            /\ enginePc' = "init_set"
    /\ UNCHANGED <<hostVars, m_hotReloadEnabled, m_pendingFileChanges, mutexOwner,
                   threadVars, callFrame, reloadLog, enqLog, takenLog,
                   drainSnapshot, drainReloads, drainEnabled, pushedSinceSwap,
                   nChanges, nDrains>>

\* m_hotReloadEnabled = true; return true
InitializeSetEnabled ==
    /\ enginePc = "init_set"
    /\ m_hotReloadEnabled' = TRUE
    /\ enginePc' = "idle"
    /\ UNCHANGED <<hostVars, m_pendingFileChanges, m_projectRoot, mutexOwner,
                   fwWatching, fwWatched, fwCallbackSet, srInitialized, initCalled,
                   threadVars, callFrame, histVars>>

\* ShutdownHotReload: FileWatcher::Shutdown joins the watcher thread, so it
\* returns once the thread is out of its callback; ScriptReloader::Shutdown
\* follows.  The queue is left as it is.
ShutdownStop ==
    /\ enginePc = "idle"
    /\ nToggles < MaxToggles
    /\ watcherPc = "idle"
    /\ nToggles' = nToggles + 1
    /\ fwWatching' = FALSE
    /\ srInitialized' = FALSE
    /\ enginePc' = "shut_set"
    /\ UNCHANGED <<hostVars, m_hotReloadEnabled, m_pendingFileChanges,
                   m_projectRoot, mutexOwner, fwWatched, fwCallbackSet, initCalled,
                   threadVars, callFrame, reloadLog, enqLog, takenLog,
                   drainSnapshot, drainReloads, drainEnabled, pushedSinceSwap,
                   nChanges, nDrains>>

\* m_hotReloadEnabled = false
ShutdownSetDisabled ==
    /\ enginePc = "shut_set"
    /\ m_hotReloadEnabled' = FALSE
    /\ enginePc' = "idle"
    /\ UNCHANGED <<hostVars, m_pendingFileChanges, m_projectRoot, mutexOwner,
                   fwWatching, fwWatched, fwCallbackSet, srInitialized, initCalled,
                   threadVars, callFrame, histVars>>

\* ExecuteEnableHotReload with no argument: StartWatching when the flag is
\* not set, else nothing
EnableStart ==
    /\ enginePc = "idle"
    /\ nToggles < MaxToggles
    /\ nToggles' = nToggles + 1
    /\ IF ~m_hotReloadEnabled
       THEN fwWatching' = TRUE /\ enginePc' = "enable_set"
       ELSE UNCHANGED <<fwWatching, enginePc>>
    /\ UNCHANGED <<hostVars, m_hotReloadEnabled, m_pendingFileChanges,
                   m_projectRoot, mutexOwner, fwWatched, fwCallbackSet,
                   srInitialized, initCalled, threadVars, callFrame, reloadLog,
                   enqLog, takenLog, drainSnapshot, drainReloads, drainEnabled,
                   pushedSinceSwap, nChanges, nDrains>>

\* m_hotReloadEnabled = true; return Success(true)
EnableSetEnabled ==
    /\ enginePc = "enable_set"
    /\ m_hotReloadEnabled' = TRUE
    /\ enginePc' = "idle"
    /\ UNCHANGED <<hostVars, m_pendingFileChanges, m_projectRoot, mutexOwner,
                   fwWatching, fwWatched, fwCallbackSet, srInitialized, initCalled,
                   threadVars, callFrame, histVars>>

\* ExecuteDisableHotReload with no argument: StopWatching (a join) when the
\* flag is set, else nothing
DisableStop ==
    /\ enginePc = "idle"
    /\ nToggles < MaxToggles
    /\ m_hotReloadEnabled => watcherPc = "idle"
    /\ nToggles' = nToggles + 1
    /\ IF m_hotReloadEnabled
       THEN fwWatching' = FALSE /\ enginePc' = "disable_set"
       ELSE UNCHANGED <<fwWatching, enginePc>>
    /\ UNCHANGED <<hostVars, m_hotReloadEnabled, m_pendingFileChanges,
                   m_projectRoot, mutexOwner, fwWatched, fwCallbackSet,
                   srInitialized, initCalled, threadVars, callFrame, reloadLog,
                   enqLog, takenLog, drainSnapshot, drainReloads, drainEnabled,
                   pushedSinceSwap, nChanges, nDrains>>

\* m_hotReloadEnabled = false; return Success(true)
DisableSetDisabled ==
    /\ enginePc = "disable_set"
    /\ m_hotReloadEnabled' = FALSE
    /\ enginePc' = "idle"
    /\ UNCHANGED <<hostVars, m_pendingFileChanges, m_projectRoot, mutexOwner,
                   fwWatching, fwWatched, fwCallbackSet, srInitialized, initCalled,
                   threadVars, callFrame, histVars>>

(***************************************************************************)
(* The watcher thread.                                                     *)
(***************************************************************************)
\* the poll loop sees a newer timestamp on a watched file and calls the
\* change callback, which calls OnFileChanged(filePath)
WatcherDetectsChange(filePath) ==
    /\ watcherPc = "idle"
    /\ fwWatching
    /\ fwCallbackSet
    /\ \E i \in 1..Len(fwWatched) : fwWatched[i] = filePath
    /\ nChanges < MaxChanges
    /\ nChanges' = nChanges + 1
    /\ watcherPath' = filePath
    /\ watcherPc' = "ofc_check"
    /\ UNCHANGED <<hostVars, hrVars, enginePc, filesToProcess, callFrame,
                   reloadLog, enqLog, takenLog, drainSnapshot, drainReloads,
                   drainEnabled, pushedSinceSwap, nDrains, nToggles>>

\* OnFileChanged: if (m_hotReloadEnabled), read without the mutex
OnFileChangedCheck ==
    /\ watcherPc = "ofc_check"
    /\ watcherPc' = IF m_hotReloadEnabled THEN "ofc_lock" ELSE "idle"
    /\ UNCHANGED <<hostVars, hrVars, enginePc, filesToProcess, watcherPath,
                   callFrame, histVars>>

\* std::lock_guard<std::mutex> lock(m_fileChangeQueueMutex)
OnFileChangedLock ==
    /\ watcherPc = "ofc_lock"
    /\ mutexOwner = "none"
    /\ mutexOwner' = "watcher"
    /\ watcherPc' = "ofc_push"
    /\ UNCHANGED <<hostVars, m_hotReloadEnabled, m_pendingFileChanges,
                   m_projectRoot, fwWatching, fwWatched, fwCallbackSet,
                   srInitialized, initCalled, enginePc, filesToProcess,
                   watcherPath, callFrame, histVars>>

\* reloads the script from the callback instead of queuing it
OnFileChangedReloads ==
    /\ watcherPc = "ofc_push"
    /\ reloadLog' = ReloadScript("watcher",
                                 GetAbsoluteScriptPath(m_projectRoot, watcherPath), 0)
    /\ mutexOwner' = "none"
    /\ watcherPc' = "idle"
    /\ UNCHANGED <<hostVars, m_hotReloadEnabled, m_pendingFileChanges,
                   m_projectRoot, fwWatching, fwWatched, fwCallbackSet,
                   srInitialized, initCalled, enginePc, filesToProcess,
                   watcherPath, callFrame, enqLog, takenLog, drainSnapshot,
                   drainReloads, drainEnabled, pushedSinceSwap, nChanges, nDrains,
                   nToggles>>

\* m_pendingFileChanges.push(filePath); the guard goes out of scope
OnFileChangedPush ==
    /\ watcherPc = "ofc_push"
    /\ m_pendingFileChanges' = Append(m_pendingFileChanges, watcherPath)
    /\ enqLog' = Append(enqLog, watcherPath)
    /\ pushedSinceSwap' = Append(pushedSinceSwap, watcherPath)
    /\ mutexOwner' = "none"
    /\ watcherPc' = "idle"
    /\ UNCHANGED <<hostVars, m_hotReloadEnabled, m_projectRoot, fwWatching,
                   fwWatched, fwCallbackSet, srInitialized, initCalled, enginePc,
                   filesToProcess, watcherPath, callFrame, reloadLog, takenLog,
                   drainSnapshot, drainReloads, drainEnabled, nChanges, nDrains,
                   nToggles>>

(***************************************************************************)
(* ProcessPendingHotReloadEvents on the engine thread.                     *)
(***************************************************************************)
\* the call: std::queue<std::string> filesToProcess
ProcessPendingBegin ==
    /\ enginePc = "idle"
    /\ nDrains < MaxDrains
    /\ nDrains' = nDrains + 1
    /\ filesToProcess' = <<>>
    /\ enginePc' = "ppe_lock"
    /\ UNCHANGED <<hostVars, hrVars, watcherPc, watcherPath, callFrame, reloadLog,
                   enqLog, takenLog, drainSnapshot, drainReloads, drainEnabled,
                   pushedSinceSwap, nChanges, nToggles>>

\* std::lock_guard<std::mutex> lock(m_fileChangeQueueMutex)
ProcessPendingLock ==
    /\ enginePc = "ppe_lock"
    /\ mutexOwner = "none"
    /\ mutexOwner' = "engine"
    /\ enginePc' = "ppe_swap"
    /\ UNCHANGED <<hostVars, m_hotReloadEnabled, m_pendingFileChanges,
                   m_projectRoot, fwWatching, fwWatched, fwCallbackSet,
                   srInitialized, initCalled, threadVars, callFrame, histVars>>

\* the swap as a function of what the local queue receives and what the
\* member queue is left with
SwapStep(received, left) ==
    /\ enginePc = "ppe_swap"
    /\ filesToProcess' = received
    /\ m_pendingFileChanges' = left
    /\ mutexOwner' = "none"
    /\ takenLog' = takenLog \o
                   [i \in 1..Len(received) |->
                      [path |-> received[i], drain |-> nDrains]]
    /\ drainSnapshot' = m_pendingFileChanges
    /\ drainReloads' = <<>>
    /\ drainEnabled' = TRUE
    /\ pushedSinceSwap' = <<>>
    /\ enginePc' = "ppe_loop"
    /\ UNCHANGED <<hostVars, m_hotReloadEnabled, m_projectRoot, fwWatching,
                   fwWatched, fwCallbackSet, srInitialized, initCalled, watcherPc,
                   watcherPath, callFrame, reloadLog, enqLog, nChanges, nDrains,
                   nToggles>>

\* swaps, and keeps the mutex for the loop that follows
ProcessPendingSwapKeepsLock ==
    /\ enginePc = "ppe_swap"
    /\ filesToProcess' = m_pendingFileChanges
    /\ m_pendingFileChanges' = filesToProcess
    /\ takenLog' = takenLog \o
                   [i \in 1..Len(m_pendingFileChanges) |->
                      [path |-> m_pendingFileChanges[i], drain |-> nDrains]]
    /\ drainSnapshot' = m_pendingFileChanges
    /\ drainReloads' = <<>>
    /\ drainEnabled' = TRUE
    /\ pushedSinceSwap' = <<>>
    /\ enginePc' = "ppe_loop"
    /\ UNCHANGED <<hostVars, m_hotReloadEnabled, m_projectRoot, mutexOwner,
                   fwWatching, fwWatched, fwCallbackSet, srInitialized, initCalled,
                   watcherPc, watcherPath, callFrame, reloadLog, enqLog, nChanges,
                   nDrains, nToggles>>

\* copies the member queue and leaves it as it is
ProcessPendingSwapCopies == SwapStep(m_pendingFileChanges, m_pendingFileChanges)

\* moves only the front path and clears the member queue
ProcessPendingSwapFrontOnly ==
    SwapStep(IF m_pendingFileChanges = <<>> THEN <<>>
             ELSE <<Head(m_pendingFileChanges)>>, <<>>)

\* filesToProcess.swap(m_pendingFileChanges); the guard goes out of scope
ProcessPendingSwap == SwapStep(m_pendingFileChanges, filesToProcess)

\* one turn of the loop as a function of what is left in the local queue
ProcessStep(rest) ==
    /\ enginePc = "ppe_loop"
    /\ filesToProcess # <<>>
    /\ LET filePath == Head(filesToProcess)
           absolutePath == GetAbsoluteScriptPath(m_projectRoot, filePath)
       IN  IF m_hotReloadEnabled
           THEN /\ reloadLog' = ReloadScript("engine", absolutePath, nDrains)
                /\ drainReloads' = Append(drainReloads, absolutePath)
                /\ UNCHANGED drainEnabled
           ELSE /\ drainEnabled' = FALSE
                /\ UNCHANGED <<reloadLog, drainReloads>>
    /\ filesToProcess' = rest
    /\ UNCHANGED <<hostVars, hrVars, enginePc, watcherPc, watcherPath, callFrame,
                   enqLog, takenLog, drainSnapshot, pushedSinceSwap, nChanges,
                   nDrains, nToggles>>

\* reloads the front path whatever the flag says
ProcessPendingOneIgnoresFlag ==
    /\ enginePc = "ppe_loop"
    /\ filesToProcess # <<>>
    /\ LET absolutePath ==
               GetAbsoluteScriptPath(m_projectRoot, Head(filesToProcess))
       IN  /\ reloadLog' = ReloadScript("engine", absolutePath, nDrains)
           /\ drainReloads' = Append(drainReloads, absolutePath)
    /\ drainEnabled' = (drainEnabled /\ m_hotReloadEnabled)
    /\ filesToProcess' = Tail(filesToProcess)
    /\ UNCHANGED <<hostVars, hrVars, enginePc, watcherPc, watcherPath, callFrame,
                   enqLog, takenLog, drainSnapshot, pushedSinceSwap, nChanges,
                   nDrains, nToggles>>

\* drops the later occurrences of the path it has just handled
ProcessPendingOneCoalesces ==
    LET Other(p) == p # Head(filesToProcess)
    IN  ProcessStep(SelectSeq(Tail(filesToProcess), Other))

\* one turn of while (!filesToProcess.empty()): the front path is resolved
\* and, if (m_scriptReloader && m_hotReloadEnabled), reloaded; then popped
ProcessPendingOne == ProcessStep(Tail(filesToProcess))

\* the loop ends and the call returns
ProcessPendingReturn ==
    /\ enginePc = "ppe_loop"
    /\ filesToProcess = <<>>
    /\ enginePc' = "ppe_returned"
    /\ UNCHANGED <<hostVars, hrVars, threadVars, callFrame, histVars>>

\* the frame goes on
FrameContinues ==
    /\ enginePc = "ppe_returned"
    /\ enginePc' = "idle"
    /\ UNCHANGED <<hostVars, hrVars, threadVars, callFrame, histVars>>

(***************************************************************************)
(* GetAvailableMethods called by the script engine between two frames.     *)
(***************************************************************************)
\* a catalog that lists the hot-reload bindings while hot reload is enabled
ListMethodsWhileEnabled ==
    /\ enginePc = "idle"
    /\ lastCall' = [name |-> "GetAvailableMethods", args |-> <<>>,
                    hostFails |-> FALSE]
    /\ lastResult' = IF m_hotReloadEnabled
                     THEN Append(GetAvailableMethods,
                                 ScriptMethodInfo("disableHotReload", <<>>, "bool"))
                     ELSE GetAvailableMethods
    /\ enginePc' = "listed"
    /\ UNCHANGED <<hostVars, hrVars, threadVars, histVars, lastOps, lastConv,
                   before>>

\* GetAvailableMethods(): the vector it builds is handed to the caller
ListMethods ==
    /\ enginePc = "idle"
    /\ lastCall' = [name |-> "GetAvailableMethods", args |-> <<>>,
                    hostFails |-> FALSE]
    /\ lastResult' = GetAvailableMethods
    /\ enginePc' = "listed"
    /\ UNCHANGED <<hostVars, hrVars, threadVars, histVars, lastOps, lastConv,
                   before>>

\* the caller has the catalog and goes on
ListMethodsReturn ==
    /\ enginePc = "listed"
    /\ lastCall' = NoCall
    /\ lastResult' = SuccessVoid
    /\ enginePc' = "idle"
    /\ UNCHANGED <<hostVars, hrVars, threadVars, histVars, lastOps, lastConv,
                   before>>

Next ==
    \/ \E projectRoot \in ProjectRoots, fwOk \in BOOLEAN, srOk \in BOOLEAN :
          InitializeHotReload(projectRoot, fwOk, srOk)
    \/ InitializeSetEnabled
    \/ EnableStart
    \/ EnableSetEnabled
    \/ DisableStop
    \/ DisableSetDisabled
    \/ ShutdownStop
    \/ ShutdownSetDisabled
    \/ \E filePath \in ChangingFiles : WatcherDetectsChange(filePath)
    \/ OnFileChangedCheck
    \/ OnFileChangedLock
    \/ OnFileChangedPush
    \/ ProcessPendingBegin
    \/ ProcessPendingLock
    \/ ProcessPendingSwap
    \/ ProcessPendingOne
    \/ ProcessPendingReturn
    \/ FrameContinues
    \/ ListMethods
    \/ ListMethodsReturn

Spec == Init /\ [][Next]_vars

(***************************************************************************)
(* SpecLive: the coordinator after a successful InitializeHotReload, hot   *)
(* reload enabled for good, the engine thread draining frame after frame.  *)
(* The histories of Spec would grow without end here, so the steps that    *)
(* write them are restated without them.  enqLog holds the callbacks whose *)
(* path has not been handed to the Reloader yet, oldest first, each with a *)
(* ticket; reloadLog holds the last ReloadScript invocation and the ticket *)
(* it served; nChanges is the next ticket.                                 *)
(***************************************************************************)
liveConst == <<hostVars, m_hotReloadEnabled, m_projectRoot, fwWatching, fwWatched,
               fwCallbackSet, srInitialized, initCalled, callFrame, takenLog,
               drainSnapshot, drainReloads, drainEnabled, pushedSinceSwap,
               nDrains, nToggles>>

InitLive ==
    /\ m_game = InitGame
    /\ fileSystem = InitFiles
    /\ m_hotReloadEnabled = TRUE
    /\ m_pendingFileChanges = <<>>
    /\ m_projectRoot = ProjectRoot
    /\ mutexOwner = "none"
    /\ fwWatching = TRUE
    /\ fwWatched = DefaultWatchedFiles
    /\ fwCallbackSet = TRUE
    /\ srInitialized = TRUE
    /\ enginePc = "idle"
    /\ filesToProcess = <<>>
    /\ initCalled = TRUE
    /\ watcherPc = "idle"
    /\ watcherPath = ""
    /\ lastCall = NoCall
    /\ lastResult = SuccessVoid
    /\ lastOps = <<>>
    /\ lastConv = 0
    /\ before = [game |-> InitGame, files |-> InitFiles, hre |-> FALSE,
                 watching |-> FALSE, watched |-> <<>>, ops |-> <<>>, conv |-> 0]
    /\ reloadLog = <<>>
    /\ enqLog = <<>>
    /\ takenLog = <<>>
    /\ drainSnapshot = <<>>
    /\ drainReloads = <<>>
    /\ drainEnabled = TRUE
    /\ pushedSinceSwap = <<>>
    /\ nChanges = 0
    /\ nDrains = 0
    /\ nToggles = 0

\* the change callback fires for a watched file: OnFileChanged(filePath)
LiveWatcherDetectsChange(filePath) ==
    /\ watcherPc = "idle"
    /\ fwWatching
    /\ fwCallbackSet
    /\ \E i \in 1..Len(fwWatched) : fwWatched[i] = filePath
    /\ Len(enqLog) < MaxOutstanding
    /\ enqLog' = Append(enqLog, [id |-> nChanges, path |-> filePath])
    /\ nChanges' = (nChanges + 1) % (MaxOutstanding + 1)
    /\ watcherPath' = filePath
    /\ watcherPc' = "ofc_check"
    /\ UNCHANGED <<liveConst, m_pendingFileChanges, mutexOwner, enginePc,
                   filesToProcess, reloadLog>>

\* m_pendingFileChanges.push(filePath); the guard goes out of scope
LiveOnFileChangedPush ==
    /\ watcherPc = "ofc_push"
    /\ m_pendingFileChanges' = Append(m_pendingFileChanges, watcherPath)
    /\ mutexOwner' = "none"
    /\ watcherPc' = "idle"
    /\ UNCHANGED <<liveConst, enginePc, filesToProcess, watcherPath, reloadLog,
                   enqLog, nChanges>>

\* the call of the frame: std::queue<std::string> filesToProcess
LiveProcessPendingBegin ==
    /\ enginePc = "idle"
    /\ filesToProcess' = <<>>
    /\ enginePc' = "ppe_lock"
    /\ UNCHANGED <<liveConst, m_pendingFileChanges, mutexOwner, watcherPc,
                   watcherPath, reloadLog, enqLog, nChanges>>

\* the swap as a function of what the local queue receives and what the
\* member queue is left with
LiveSwapStep(received, left) ==
    /\ enginePc = "ppe_swap"
    /\ filesToProcess' = received
    /\ m_pendingFileChanges' = left
    /\ mutexOwner' = "none"
    /\ enginePc' = "ppe_loop"
    /\ UNCHANGED <<liveConst, watcherPc, watcherPath, reloadLog, enqLog, nChanges>>

\* moves only the front path and clears the member queue
LiveProcessPendingSwapFrontOnly ==
    LiveSwapStep(IF m_pendingFileChanges = <<>> THEN <<>>
                 ELSE <<Head(m_pendingFileChanges)>>, <<>>)

\* filesToProcess.swap(m_pendingFileChanges); the guard goes out of scope
LiveProcessPendingSwap == LiveSwapStep(m_pendingFileChanges, filesToProcess)

\* one turn of the loop: the front path is resolved and, if
\* (m_scriptReloader && m_hotReloadEnabled), reloaded; then popped.  The
\* reload serves the oldest callback, which is the one of this path.
LiveProcessPendingOne ==
    /\ enginePc = "ppe_loop"
    /\ filesToProcess # <<>>
    /\ LET filePath == Head(filesToProcess)
           absolutePath == GetAbsoluteScriptPath(m_projectRoot, filePath)
           served == enqLog # <<>> /\ Head(enqLog).path = filePath
       IN  IF m_hotReloadEnabled
           THEN /\ reloadLog' =
                      <<[thread |-> "engine", path |-> absolutePath,
                         id |-> IF served THEN Head(enqLog).id ELSE -1,
                         ok |-> SR_ReloadScript(fileSystem, absolutePath)]>>
                /\ enqLog' = IF served THEN Tail(enqLog) ELSE enqLog
           ELSE UNCHANGED <<reloadLog, enqLog>>
    /\ filesToProcess' = Tail(filesToProcess)
    /\ UNCHANGED <<liveConst, m_pendingFileChanges, mutexOwner, enginePc,
                   watcherPc, watcherPath, nChanges>>

NextLive ==
    \/ \E filePath \in ChangingFiles : LiveWatcherDetectsChange(filePath)
    \/ OnFileChangedCheck
    \/ OnFileChangedLock
    \/ LiveOnFileChangedPush
    \/ LiveProcessPendingBegin
    \/ ProcessPendingLock
    \/ LiveProcessPendingSwap
    \/ LiveProcessPendingOne
    \/ ProcessPendingReturn
    \/ FrameContinues

\* the engine thread runs frame after frame and a callback runs to its end:
\* every step that stays possible is taken; a thread waiting for the mutex
\* gets it when it is released again and again
LiveFairness ==
    /\ WF_vars(LiveProcessPendingBegin)
    /\ SF_vars(ProcessPendingLock)
    /\ WF_vars(LiveProcessPendingSwap)
    /\ WF_vars(LiveProcessPendingOne)
    /\ WF_vars(ProcessPendingReturn)
    /\ WF_vars(FrameContinues)
    /\ WF_vars(OnFileChangedCheck)
    /\ SF_vars(OnFileChangedLock)
    /\ WF_vars(LiveOnFileChangedPush)

SpecLive == InitLive /\ [][NextLive]_vars /\ LiveFairness

(***************************************************************************)
(* SpecMarshal: the marshaller on its own.  The initial state holds the    *)
(* conversion about to be made and its input; the one step makes it.       *)
(***************************************************************************)
\* the values handed to ExtractInt and ExtractFloat: the doubles from
\* -MaxTenths/10 to MaxTenths/10 in steps of a tenth, a double beyond int,
\* the other numeric types, and values that are no number
MarshalValues ==
    {DoubleVal(t) : t \in -MaxTenths..MaxTenths}
        \cup {HugeDouble, Val("float", 39, ""), Val("float", -39, ""),
               Val("int", 3, ""), Val("long", 3, ""), Val("uint", 3, ""),
               StringVal("3.9"), BoolVal(TRUE), BoolVal(FALSE), NoVal}

\* the lists handed to ExtractVec3, and the start indices
Vec3Values == {DoubleVal(10), DoubleVal(25), StringVal("x")}

Vec3Lists == UNION {[1..n -> Vec3Values] : n \in 0..MaxVecLen}

MarshalInputs ==
    {[name |-> name, args |-> <<v>>, startIndex |-> 0] :
        name \in {"ExtractInt", "ExtractFloat"}, v \in MarshalValues}
        \cup {[name |-> "ExtractVec3", args |-> args, startIndex |-> startIndex] :
                 args \in Vec3Lists, startIndex \in 0..MaxVecLen}

InitMarshal ==
    /\ m_game = InitGame
    /\ fileSystem = InitFiles
    /\ m_hotReloadEnabled = FALSE
    /\ m_pendingFileChanges = <<>>
    /\ m_projectRoot = ""
    /\ mutexOwner = "none"
    /\ fwWatching = FALSE
    /\ fwWatched = <<>>
    /\ fwCallbackSet = FALSE
    /\ srInitialized = FALSE
    /\ enginePc = "marshal"
    /\ filesToProcess = <<>>
    /\ initCalled = FALSE
    /\ watcherPc = "idle"
    /\ watcherPath = ""
    /\ lastCall \in MarshalInputs
    /\ lastResult = SuccessVoid
    /\ lastOps = <<>>
    /\ lastConv = 0
    /\ before = [game |-> InitGame, files |-> InitFiles, hre |-> FALSE,
                 watching |-> FALSE, watched |-> <<>>, ops |-> <<>>, conv |-> 0]
    /\ reloadLog = <<>>
    /\ enqLog = <<>>
    /\ takenLog = <<>>
    /\ drainSnapshot = <<>>
    /\ drainReloads = <<>>
    /\ drainEnabled = TRUE
    /\ pushedSinceSwap = <<>>
    /\ nChanges = 0
    /\ nDrains = 0
    /\ nToggles = 0

\* what a conversion to int without a defined result may yield
UndefinedInts ==
    {Success(Val("int", 0, "INT_MIN")), Success(Val("int", 0, "")),
     Success(Val("int", -1, ""))}

\* ExtractInt(arg)
ExtractIntStep ==
    /\ enginePc = "marshal"
    /\ lastCall.name = "ExtractInt"
    /\ LET r == ExtractInt(lastCall.args[1])
       IN  IF r.kind = "Undefined" THEN lastResult' \in UndefinedInts
           ELSE lastResult' = r
    /\ enginePc' = "converted"
    /\ UNCHANGED <<hostVars, hrVars, threadVars, histVars, lastCall, lastOps,
                   lastConv, before>>

\* ExtractFloat(arg)
ExtractFloatStep ==
    /\ enginePc = "marshal"
    /\ lastCall.name = "ExtractFloat"
    /\ lastResult' = ExtractFloat(lastCall.args[1])
    /\ enginePc' = "converted"
    /\ UNCHANGED <<hostVars, hrVars, threadVars, histVars, lastCall, lastOps,
                   lastConv, before>>

\* ExtractVec3(args, startIndex)
ExtractVec3Step ==
    /\ enginePc = "marshal"
    /\ lastCall.name = "ExtractVec3"
    /\ lastResult' = ExtractVec3(lastCall.args, lastCall.startIndex)
    /\ enginePc' = "converted"
    /\ UNCHANGED <<hostVars, hrVars, threadVars, histVars, lastCall, lastOps,
                   lastConv, before>>

NextMarshal ==
    \/ ExtractIntStep
    \/ ExtractFloatStep
    \/ ExtractVec3Step

SpecMarshal == InitMarshal /\ [][NextMarshal]_vars

(***************************************************************************)
(* Properties of the hot-reload coordinator (Spec).                        *)
(***************************************************************************)
\* the absolute paths of a sequence of queued paths
Resolved(paths) ==
    [i \in 1..Len(paths) |-> GetAbsoluteScriptPath(m_projectRoot, paths[i])]

\* the paths of the entries of takenLog
TakenPaths == [i \in 1..Len(takenLog) |-> takenLog[i].path]

\* C1 as stated: when ProcessPendingHotReloadEvents returns, it has invoked
\* the Reloader once for every path that was in the queue when it took the
\* queue, duplicates included, in the order of arrival.
C1_ReloadsEveryQueuedPath ==
    enginePc = "ppe_returned" => drainReloads = Resolved(drainSnapshot)

\* C1 amended: the same, for a call during which the hot-reload flag was set
\* at the check made for each path; a path checked with the flag off is
\* popped without a reload.
C1_ReloadsEveryQueuedPathWhileEnabled ==
    enginePc = "ppe_returned" =>
        /\ drainEnabled => drainReloads = Resolved(drainSnapshot)
        /\ Len(drainReloads) <= Len(drainSnapshot)

\* a drain that reloaded the same path twice, then another path
C1_Witness ==
    /\ enginePc = "ppe_returned"
    /\ drainEnabled
    /\ Len(drainSnapshot) = 3
    /\ drainSnapshot[1] = drainSnapshot[2]
    /\ drainSnapshot[2] # drainSnapshot[3]
    /\ Len(drainReloads) = 3

\* C2: every invocation of the Reloader so far was made by the engine
\* thread, in the turn of a drain's loop; the watcher thread's callback,
\* while it runs, has added none.
C2_ReloadOnlyOnEngineThread ==
    \A i \in 1..Len(reloadLog) :
        reloadLog[i].thread = "engine" /\ reloadLog[i].drain \in 1..nDrains

\* the watcher thread is about to push while the engine thread, in the
\* middle of a drain, has reloaded a script
C2_Witness ==
    /\ watcherPc = "ofc_push"
    /\ enginePc = "ppe_loop"
    /\ Len(drainReloads) > 0
    /\ Len(enqLog) > 0

\* C3: the paths pushed so far are, in order, the paths swapped out by the
\* drains so far followed by the paths still queued: each pushed path is
\* taken by one drain or still waits, none is lost, none is taken twice;
\* and the drain in progress holds a suffix of what it swapped out.
C3_EveryPathDrainedOnce ==
    /\ enqLog = TakenPaths \o m_pendingFileChanges
    /\ \A i, j \in 1..Len(takenLog) : i <= j => takenLog[i].drain <= takenLog[j].drain
    /\ enginePc = "ppe_loop" =>
          /\ Len(filesToProcess) <= Len(drainSnapshot)
          /\ filesToProcess =
                SubSeq(drainSnapshot,
                       Len(drainSnapshot) - Len(filesToProcess) + 1,
                       Len(drainSnapshot))

\* the second drain has taken a path that the watcher pushed while the
\* first drain was still at work
C3_Witness ==
    /\ nDrains = 2
    /\ enginePc = "ppe_loop"
    /\ \E i, j \in 1..Len(takenLog) : takenLog[i].drain = 1 /\ takenLog[j].drain = 2
    /\ m_pendingFileChanges # <<>>
    /\ filesToProcess # <<>>

\* C4 as stated: in the state the return of ProcessPendingHotReloadEvents
\* produces, the queue is empty.
C4_QueueEmptyOnReturn ==
    [][(enginePc = "ppe_loop" /\ enginePc' = "ppe_returned")
         => m_pendingFileChanges' = <<>>]_vars

\* C4 amended: when ProcessPendingHotReloadEvents has returned, the queue
\* holds exactly the paths the watcher pushed after the call took the
\* queue, in order; it is empty if the watcher pushed none since.
C4_QueueHoldsOnlyLaterPushes ==
    enginePc \in {"ppe_loop", "ppe_returned"} =>
        m_pendingFileChanges = pushedSinceSwap

\* a drain that took a path returns while a later path is queued
C4_Witness ==
    /\ enginePc = "ppe_returned"
    /\ drainSnapshot # <<>>
    /\ m_pendingFileChanges # <<>>

(***************************************************************************)
(* Properties of CallMethod (SpecCall).                                    *)
(***************************************************************************)
\* the call that has just returned left the world as it was
WorldUnchanged == World = before

\* the names of the catalog
CatalogNames == {GetAvailableMethods[i].name : i \in 1..Len(GetAvailableMethods)}

\* the catalog entry of a name of the catalog
CatalogEntry(methodName) ==
    CHOOSE m \in {GetAvailableMethods[i] : i \in 1..Len(GetAvailableMethods)} :
        m.name = methodName

\* the marshaller converts v to the native type
Convertible(type, v) ==
    IF type = "float" THEN ExtractFloat(v).kind = "Success"
    ELSE IF type = "int" THEN ExtractInt(v).kind = "Success"
    ELSE ExtractString(v).kind = "Success"

\* v is a script value of the documented type: a script number for "float"
\* and "int", a script string for "string"
OfDocumentedType(type, v) ==
    IF type \in {"float", "int"} THEN v.tag = "double" ELSE v.tag = "string"

\* C5: every call ends with one result, Success or Error, never with an
\* exception in flight.
C5_CallYieldsResult ==
    enginePc = "returned" => lastResult.kind \in {"Success", "Error"}

\* a call whose host operation threw has returned an Error
C5_Witness ==
    /\ enginePc = "returned"
    /\ lastResult.kind = "Error"
    /\ lastResult.msg.prefix # ""
    /\ lastCall.hostFails

\* C6: a name outside the dispatch table yields Error "unknown method:
\* <name>", no collaborator operation, no conversion, and no change of state.
C6_UnknownMethod ==
    (enginePc = "returned" /\ lastCall.name \notin DispatchTable) =>
        /\ lastResult.kind = "Error"
        /\ lastResult.msg.text = "unknown method: "
        /\ lastResult.msg.name = lastCall.name
        /\ lastOps = <<>>
        /\ lastConv = 0
        /\ WorldUnchanged

\* a name that differs from createCube by case only, called with three
\* numbers
C6_Witness ==
    /\ enginePc = "returned"
    /\ lastCall.name = "CreateCube"
    /\ Len(lastCall.args) = 3
    /\ \A i \in 1..3 : lastCall.args[i].tag = "double"
    /\ lastResult.kind = "Error"

\* C7: a handled method called with another number of arguments than its
\* handler expects yields the Error that names the expected count, before
\* any conversion and any collaborator operation, with the state unchanged.
C7_ArgumentCount ==
    (/\ enginePc = "returned"
     /\ lastCall.name \in DispatchTable
     /\ Len(lastCall.args) # Len(HandlerSignature(lastCall.name))) =>
        /\ lastResult.kind = "Error"
        /\ lastResult.msg.text = "needs variables, but receives"
        /\ lastResult.msg.expected = Len(HandlerSignature(lastCall.name))
        /\ lastResult.msg.actual = Len(lastCall.args)
        /\ lastOps = <<>>
        /\ lastConv = 0
        /\ WorldUnchanged

\* moveProp called with five numbers
C7_Witness ==
    /\ enginePc = "returned"
    /\ lastCall.name = "moveProp"
    /\ Len(lastCall.args) = 5
    /\ \A i \in 1..5 : lastCall.args[i].tag = "double"
    /\ lastResult.kind = "Error"
    /\ lastResult.msg.expected = 4

\* the call that has just returned was a catalog method with as many
\* arguments as documented, each of the documented type
DocumentedCall ==
    /\ enginePc = "returned"
    /\ lastCall.name \in CatalogNames
    /\ LET types == CatalogEntry(lastCall.name).parameterTypes
       IN  /\ Len(lastCall.args) = Len(types)
           /\ \A i \in 1..Len(types) : OfDocumentedType(types[i], lastCall.args[i])

\* the host cannot serve the call: there is no player to ask for a position,
\* the file to stat does not exist, or the host operation threw
HostCannotServe ==
    \/ lastCall.hostFails
    \/ lastCall.name = "getPlayerPosition" /\ ~before.game.player
    \/ /\ lastCall.name = "getFileTimestamp"
       /\ TimestampPath(lastCall.args[1].str) \notin before.files

\* C8 as stated: a documented call yields Success in every host state.
C8_DocumentedCallSucceeds ==
    DocumentedCall => lastResult.kind = "Success"

\* C8 amended: a documented call yields Success unless the host cannot
\* serve it, and then it yields Error.
C8_DocumentedCallSucceedsUnlessHostCannot ==
    DocumentedCall =>
        (lastResult.kind = "Success" <=> ~HostCannotServe) /\
        (lastResult.kind = "Error" <=> HostCannotServe)

\* moveProp with four numbers moved a prop
C8_Witness ==
    /\ DocumentedCall
    /\ lastCall.name = "moveProp"
    /\ lastResult.kind = "Success"
    /\ m_game.props # before.game.props

\* the first argument, in the order of conversion, that the marshaller
\* cannot convert to the type its handler asks for; 0 if there is none
FirstBadArgument(methodName, args) ==
    LET sig == HandlerSignature(methodName)
        bad == {i \in 1..Len(sig) : ~Convertible(sig[i], args[i])}
    IN  IF bad = {} THEN 0 ELSE CHOOSE i \in bad : \A j \in bad : i <= j

\* C9: a handled method called with the right number of arguments of which
\* one cannot be converted yields the Error that names the expected type of
\* the first such argument; no collaborator operation is invoked and the
\* state is unchanged.
C9_ConversionError ==
    (/\ enginePc = "returned"
     /\ lastCall.name \in DispatchTable
     /\ Len(lastCall.args) = Len(HandlerSignature(lastCall.name))
     /\ FirstBadArgument(lastCall.name, lastCall.args) # 0) =>
        /\ lastResult.kind = "Error"
        /\ lastResult.msg.text = "cannot convert to type"
        /\ lastResult.msg.name =
              HandlerSignature(lastCall.name)
                 [FirstBadArgument(lastCall.name, lastCall.args)]
        /\ lastConv = FirstBadArgument(lastCall.name, lastCall.args)
        /\ lastOps = <<>>
        /\ WorldUnchanged

\* moveProp whose index converted and whose position did not
C9_Witness ==
    /\ enginePc = "returned"
    /\ lastCall.name = "moveProp"
    /\ Len(lastCall.args) = 4
    /\ lastCall.args[1].tag = "double"
    /\ lastCall.args[3].tag = "string"
    /\ lastResult.kind = "Error"
    /\ lastResult.msg.name = "float"
    /\ m_game.props = before.game.props

\* C10 as stated: a name is dispatched to a handler exactly when it is a
\* name of the catalog.
C10_CatalogIsDispatchTable ==
    enginePc = "returned" =>
        (lastResult.msg.text # "unknown method: " <=> lastCall.name \in CatalogNames)


(***************************************************************************)
(* Properties of the catalog, of the hot-reload state and of the           *)
(* properties of the script object.                                        *)
(***************************************************************************)
\* the names of a catalog in the order of its entries
NamesInOrder(catalog) == [i \in 1..Len(catalog) |-> catalog[i].name]

\* C11: GetAvailableMethods returns the same catalog in every state, the
\* entries in the order of their declaration and no name twice, whatever
\* was initialised, enabled, disabled, shut down or reloaded before.
C11_CatalogIsStable ==
    enginePc = "listed" =>
        /\ lastResult = GetAvailableMethods
        /\ NamesInOrder(lastResult) =
              <<"createCube", "moveProp", "getPlayerPosition", "movePlayerCamera",
                "update", "render", "executeCommand", "executeFile",
                "isAttractMode", "getGameState", "getFileTimestamp">>
        /\ \A i, j \in 1..Len(lastResult) :
              lastResult[i].name = lastResult[j].name => i = j

\* the catalog is listed while hot reload is enabled and after a reload
C11_Witness ==
    /\ enginePc = "listed"
    /\ m_hotReloadEnabled
    /\ reloadLog # <<>>
    /\ nToggles > 1


C13_ShutdownReleasesQueue ==
    [][ShutdownSetDisabled =>
          /\ ~m_hotReloadEnabled'
          /\ ~fwWatching'
          /\ m_pendingFileChanges' = <<>>]_vars


\* InitializeHotReload was called and returned false: the callbacks are set
\* only once both collaborators are initialised
InitializationFailed == initCalled /\ ~fwCallbackSet

\* C14 as stated: after a failed InitializeHotReload hot reload stays
\* disabled, whatever is called later: the flag is false, the watcher is
\* not running and nothing is reloaded.
C14_FailedInitStaysDisabled ==
    InitializationFailed =>
        /\ ~m_hotReloadEnabled
        /\ ~fwWatching
        /\ reloadLog = <<>>


ListedProperties ==
    {GetAvailableProperties[i] : i \in 1..Len(GetAvailableProperties)}

\* C16: SetProperty returns false for every name and every value, and
\* leaves the host state and the value of every property as they were.
C16_SetPropertyRefuses ==
    enginePc = "set_property" =>
        /\ lastResult = BoolVal(FALSE)
        /\ WorldUnchanged
        /\ \A name \in PropertyNames :
              GetProperty(name, World) = GetProperty(name, before)

\* SetProperty("gameState", "game") has returned while the game is in
\* attract mode
C16_Witness ==
    /\ enginePc = "set_property"
    /\ lastCall.name = "gameState"
    /\ lastCall.args = <<StringVal("game")>>
    /\ Game_IsAttractMode(m_game)

\* C17: GetProperty yields a value exactly for the names that
\* GetAvailableProperties lists; attractMode is Game::IsAttractMode,
\* gameState is "attract" if attractMode is true and "game" otherwise, and
\* both agree with what isAttractMode and getGameState return in that state.
C17_PropertiesDerivedFromAttractMode ==
    enginePc = "got_property" =>
        /\ lastResult # NoVal <=> lastCall.name \in ListedProperties
        /\ lastCall.name = "attractMode" =>
              /\ lastResult = BoolVal(Game_IsAttractMode(m_game))
              /\ ExecuteIsAttractMode(<<>>, World, FALSE).res = Success(lastResult)
        /\ lastCall.name = "gameState" =>
              /\ lastResult.str =
                    IF GetProperty("attractMode", World) = BoolVal(TRUE)
                    THEN "attract" ELSE "game"
              /\ ExecuteGetGameState(<<>>, World, FALSE).res.kind = "Success"
              /\ ExecuteGetGameState(<<>>, World, FALSE).res.val.str = lastResult.str

\* gameState has been read after the game left attract mode
C17_Witness ==
    /\ enginePc = "got_property"
    /\ lastCall.name = "gameState"
    /\ lastResult.str = "game"
    /\ ~Game_IsAttractMode(m_game)


(***************************************************************************)
(* Properties of the marshaller (SpecMarshal).                             *)
(***************************************************************************)
\* the integer part of a number given in tenths: the integer between 0 and
\* the number that is less than 1 away from it
IntegerPart(tenths) ==
    CHOOSE n \in -MaxTenths..MaxTenths :
        /\ IF tenths >= 0 THEN n >= 0 /\ n * 10 <= tenths /\ tenths < (n + 1) * 10
           ELSE n <= 0 /\ n * 10 >= tenths /\ tenths > (n - 1) * 10

\* C18: ExtractInt of a double whose truncation fits in an int is the
\* integer part of the double (3.9 gives 3, -3.9 gives -3); ExtractInt of a
\* string, a bool or an empty value throws the conversion error that names
\* int.
C18_ToIntTruncates ==
    (enginePc = "converted" /\ lastCall.name = "ExtractInt") =>
        LET arg == lastCall.args[1]
        IN  /\ (arg.tag = "double" /\ FitsInt(arg)) =>
                  lastResult = Success(Val("int", IntegerPart(arg.num), ""))
            /\ arg.tag \in {"string", "bool", "empty"} =>
                  /\ lastResult.kind = "Exception"
                  /\ lastResult.msg.text = "cannot convert to type"
                  /\ lastResult.msg.name = "int"

\* ExtractInt(-3.9) has been made
C18_Witness ==
    /\ enginePc = "converted"
    /\ lastCall.name = "ExtractInt"
    /\ lastCall.args[1] = DoubleVal(-39)
    /\ lastResult = Success(Val("int", -3, ""))

IsNumber(v) == v.tag \in {"double", "float", "int", "long", "uint"}

\* C20: ExtractVec3(args, startIndex) yields the vector of args[startIndex],
\* args[startIndex + 1], args[startIndex + 2] (counted from 0) exactly when
\* the list has these three values and each is a number; when fewer than
\* three values are left from startIndex on it throws the error that asks
\* for 3 parameters, before any value is converted.
C20_ToVec3 ==
    (enginePc = "converted" /\ lastCall.name = "ExtractVec3") =>
        LET args == lastCall.args
            first == lastCall.startIndex + 1
            three == Len(args) - lastCall.startIndex >= 3
            convertible == three /\ \A i \in first..(first + 2) : IsNumber(args[i])
        IN  /\ lastResult.res.kind = "Success" <=> convertible
            /\ convertible =>
                  lastResult.vec = <<args[first].num, args[first + 1].num,
                                     args[first + 2].num>>
            /\ ~three =>
                  /\ lastResult.res.kind = "Exception"
                  /\ lastResult.res.msg.text = "Vec3 needs parameters (x, y, z)"
                  /\ lastResult.res.msg.expected = 3
                  /\ lastResult.tried = 0

\* the vector of the last three of four values has been extracted
C20_Witness ==
    /\ enginePc = "converted"
    /\ lastCall.name = "ExtractVec3"
    /\ lastCall.startIndex = 1
    /\ lastCall.args = <<DoubleVal(10), DoubleVal(25), DoubleVal(25), DoubleVal(10)>>
    /\ lastResult.res.kind = "Success"
    /\ lastResult.vec = <<25, 25, 10>>


(***************************************************************************)
(* Properties of the two threads of the coordinator (Spec).                *)
(***************************************************************************)
\* C21: the engine thread holds the queue mutex exactly between taking it
\* and the swap; while it resolves paths and reloads, and when it has
\* returned, the mutex is free or the watcher's, so OnFileChanged never
\* waits for a reload.
C21_LockHeldOnlyForSwap ==
    /\ mutexOwner = "engine" <=> enginePc = "ppe_swap"
    /\ enginePc \in {"ppe_loop", "ppe_returned"} => mutexOwner # "engine"
    /\ watcherPc = "ofc_push" <=> mutexOwner = "watcher"

\* the watcher holds the mutex and pushes while the drain is between two
\* reloads
C21_Witness ==
    /\ enginePc = "ppe_loop"
    /\ drainReloads # <<>>
    /\ filesToProcess # <<>>
    /\ watcherPc = "ofc_push"
    /\ mutexOwner = "watcher"


\* the watcher thread is about to read m_hotReloadEnabled in OnFileChanged;
\* it does not hold the mutex there
WatcherReadsFlag == watcherPc = "ofc_check"

\* the engine thread is about to assign m_hotReloadEnabled in
\* InitializeHotReload, ShutdownHotReload or the enable or disable binding;
\* it does not hold the mutex there
EngineWritesFlag ==
    enginePc \in {"init_set", "enable_set", "disable_set", "shut_set"}

\* C22 as stated: the queue is touched only by the holder of the mutex, and
\* no other variable is read by one thread while the other writes it: the
\* watcher never stands at its read of the flag while the engine stands at
\* an assignment to it.
C22_OnlyQueueIsShared ==
    /\ watcherPc = "ofc_push" => mutexOwner = "watcher"
    /\ enginePc = "ppe_swap" => mutexOwner = "engine"
    /\ ~(WatcherReadsFlag /\ EngineWritesFlag)


\* the path ExecuteGetFileTimestamp stats for a relative path, and the path
\* ExecuteReloadScript hands to the Reloader for it
PathStatted(relativePath) ==
    CallMethod("getFileTimestamp", <<StringVal(relativePath)>>, World, FALSE)
        .w.ops[1].str

PathHandedByBinding(relativePath) ==
    CallMethod("reloadScript", <<StringVal(relativePath)>>, World, FALSE)
        .w.ops[1].str

\* C23 as stated: the absolute path a drain has handed to the Reloader for
\* a relative path is the path getFileTimestamp stats for it and the path
\* the reloadScript binding hands to the Reloader for it.
C23_OnePathConvention ==
    \A i \in 1..Len(reloadLog), relativePath \in ChangingFiles :
        reloadLog[i].path = GetAbsoluteScriptPath(m_projectRoot, relativePath) =>
            /\ PathStatted(relativePath) = reloadLog[i].path
            /\ PathHandedByBinding(relativePath) = reloadLog[i].path


\* C24 as stated: whenever the watcher thread is running the flag is set,
\* in every state the engine thread passes through.
C24_WatchingImpliesEnabled == fwWatching => m_hotReloadEnabled


\* C25: while the flag is not set, the step of OnFileChanged that reads it
\* ends the callback and leaves the queue as it is, nothing is pushed, and
\* each turn of the loop of ProcessPendingHotReloadEvents pops the front
\* path without a reload.
C25_DisabledDropsAndDiscards ==
    [][~m_hotReloadEnabled =>
          /\ (watcherPc = "ofc_check" /\ watcherPc' # watcherPc) =>
                /\ watcherPc' = "idle"
                /\ m_pendingFileChanges' = m_pendingFileChanges
          /\ Len(m_pendingFileChanges') <= Len(m_pendingFileChanges)
          /\ (enginePc = "ppe_loop" /\ filesToProcess' # filesToProcess) =>
                /\ filesToProcess' = Tail(filesToProcess)
                /\ reloadLog' = reloadLog
          /\ reloadLog' = reloadLog]_vars

\* a drain that ran while hot reload was disabled has returned: it took a
\* path that was queued while enabled and reloaded nothing
C25_Witness ==
    /\ enginePc = "ppe_returned"
    /\ ~m_hotReloadEnabled
    /\ ~drainEnabled
    /\ drainSnapshot # <<>>
    /\ drainReloads = <<>>
    /\ filesToProcess = <<>>


(***************************************************************************)
(* Liveness of the hand-off (SpecLive).                                    *)
(***************************************************************************)
\* the callback with this ticket has not had its path reloaded yet
Outstanding(id) == \E i \in 1..Len(enqLog) : enqLog[i].id = id

\* the last ReloadScript invocation served the callback with this ticket
Served(id) == reloadLog # <<>> /\ reloadLog[1].id = id /\ ~Outstanding(id)

=============================================================================
